---- MODULE Spec2Model ----
(***************************************************************************)
(* Model of ai_ide_compare. Each command is a state machine of its own:    *)
(*   Spec          CodebaseAnalyzer.analyze              (task_eval.py)    *)
(*   SpecMarkdown  metrics_to_markdown                   (task_eval.py)    *)
(*   SpecCleanup   cleanup_task_results, main            (__init__.py)     *)
(*   SpecVersion   get_ide_version                       (task_init.py)    *)
(*   SpecTask      init_entrypoint                       (task_init.py)    *)
(*   SpecCopy      copy_task_template                    (task_init.py)    *)
(* A specification starts one command on some state of the disk and leaves *)
(* the variables of the other commands at rest.                            *)
(*                                                                         *)
(* A file name is a sequence of tokens (<<"main", ".py">> is "main.py"),   *)
(* a path is a sequence of names, a glob pattern is a sequence of          *)
(* component patterns whose tokens may be the wildcard "*".                *)
(***************************************************************************)
EXTENDS Integers, Sequences, FiniteSets, TLC

\* ------------------------------------------------------------------ bounds
MaxFiles == 2      \* files in an analysed tree
MaxLines == 2      \* lines in a text file
MaxMdFiles == 12   \* records in a metrics value given to the report
MaxOut == 5        \* characters the version command prints

\* ------------------------------------------------------------------- state
\* the analyzer (task_eval.py, CodebaseAnalyzer)
VARIABLES
  tree,             \* the analysed directory: relative file path -> content
  ignore_patterns,  \* CodebaseAnalyzer.ignore_patterns
  pc,               \* position of analyze(): "idle", "analyzing", "done"
  visited,          \* full paths collect_files has yielded so far
  opened,           \* full paths analyze_file has opened
  metrics,          \* the CodebaseMetrics being filled
  detail_src        \* ghost: detail_src[i] is the file behind file_details[i]
\* the markdown report (task_eval.py, metrics_to_markdown)
VARIABLES
  md_metrics,   \* the CodebaseMetrics given to metrics_to_markdown
  md_pc,        \* "idle", "ready", "rendered"
  md_out        \* the rows of the report's summary and two tables
\* cleanup (__init__.py, cleanup_task_results)
VARIABLES
  results_exists,  \* whether DIRS.TASK_RESULTS (results/tasks) exists
  results_dir,     \* its entries: name -> "dir" or "file"
  cl_before,       \* ghost: results_dir when cleanup was called
  not_dry_run,     \* "--not-dry-run" in sys.argv
  cl_pc,           \* "idle", "start", "loop", "done", "raised"
  cl_todo,         \* entries iterdir() has still to yield
  cl_log           \* the "Removing ..." messages printed
\* the IDE version probe (task_init.py, get_ide_version)
VARIABLES
  ver_run,      \* what the external command does
  ver_pc,       \* "idle", "call", "returned"
  ver_result,   \* the returned value: <<>> is None, <<v>> the string v
  ver_warned    \* whether a warning was printed
\* task initialisation (task_init.py, init_entrypoint, copy_task_template)
VARIABLES
  tasks,           \* DIRS.TASKS: task type -> [exists, entries: name -> node]
  tasks_before,    \* ghost: tasks when the run started
  out,             \* the output directory: [parent_exists, exists, entries]
  out_before,      \* ghost: out when the run started
  args,            \* the parsed command line of init
  probe,           \* what the version command does in this run
  init_pc,         \* position of the run
  exit_kind,       \* "none", "returned", "sys_exit_1" or the exception raised
  errors,          \* the errors printed: <<kind, path or name>>, by
                   \* console.error or by the traceback of an exception
  task_templates,  \* init_entrypoint's task_templates
  selected,        \* (task_template_dir, task_type) of init_entrypoint
  ide_version,     \* init_entrypoint's ide_version
  metadata,        \* <<>> or <<the TaskMetadata>>
  output_dir,      \* init_entrypoint's output_dir
  copy_args,       \* the arguments of copy_task_template
  caller,          \* who called copy_task_template: "init" or "direct"
  template_dir,    \* copy_task_template's template_dir
  copy_todo,       \* children of the template still to copy
  ide_started      \* whether start_ide ran

evalVars == <<tree, ignore_patterns, pc, visited, opened, metrics, detail_src>>
mdVars == <<md_metrics, md_pc, md_out>>
cleanupVars ==
  <<results_exists, results_dir, cl_before, not_dry_run, cl_pc, cl_todo, cl_log>>
versionVars == <<ver_run, ver_pc, ver_result, ver_warned>>
taskVars ==
  <<tasks, tasks_before, out, out_before, args, probe, init_pc, exit_kind, errors,
    task_templates, selected, ide_version, metadata, output_dir, copy_args, caller,
    template_dir, copy_todo, ide_started>>

vars == <<evalVars, mdVars, cleanupVars, versionVars, taskVars>>

\* what a step of one command leaves alone: the state of the others
EvalFrame == UNCHANGED <<mdVars, cleanupVars, versionVars, taskVars>>
MdFrame == UNCHANGED <<evalVars, cleanupVars, versionVars, taskVars>>
CleanupFrame == UNCHANGED <<evalVars, mdVars, versionVars, taskVars>>
VersionFrame == UNCHANGED <<evalVars, mdVars, cleanupVars, taskVars>>
TaskFrame == UNCHANGED <<evalVars, mdVars, cleanupVars, versionVars>>

\* =========================================================================
\* Codebase analyzer (task_eval.py)
\* =========================================================================


Last(s) == s[Len(s)]

_DEFAULT_IGNORE_PATTERNS ==
  { << <<"__pycache__">> >>,
    << <<".venv">> >>,
    << <<"node_modules">> >>,
    << <<".git">> >>,
    << <<".mise.", "*", ".toml">> >>,
    << <<"*", ".pyc">> >>,
    << <<".DS_Store">> >>,
    << <<"*", ".swp">> >>,
    << <<"*", ".env">> >> }

\* Patterns a caller may add (CodebaseAnalyzer(ignore_patterns=...)).
SuppliedChoices ==
  { {},
    { << <<"*", ".py">> >> },
    { << <<"pkg">>, <<"*">> >>, << <<"README">> >> } }

\* CodebaseAnalyzer.__init__
AnalyzerInit(supplied) == _DEFAULT_IGNORE_PATTERNS \cup supplied

\* The directory given to analyze() and the files that may lie under it.
BasePath == << <<"proj">> >>

FileUniverse ==
  { << <<"main", ".py">> >>,
    << <<"pkg">>, <<"main", ".py">> >>,
    << <<"pkg">>, <<"Mod", ".PY">> >>,
    << <<"README">> >>,
    << <<"main", ".pyc">> >>,
    << <<".git">>, <<"config">> >>,
    << <<"node_modules">>, <<"lib", ".js">> >> }

\* What reading a file does: text with n lines, undecodable bytes
\* (UnicodeDecodeError) or a failing read (any other exception).
Contents ==
  [kind : {"text"}, lines : 0..MaxLines]
    \cup {[kind |-> "binary", lines |-> 0], [kind |-> "oserror", lines |-> 0]}

\* fnmatch.fnmatchcase on one path component: "*" matches any run of tokens.
RECURSIVE fnmatch(_, _)
fnmatch(name, pat) ==
  IF pat = <<>> THEN name = <<>>
  ELSE IF Head(pat) = "*"
    THEN fnmatch(name, Tail(pat)) \/ (name # <<>> /\ fnmatch(Tail(name), pat))
    ELSE name # <<>> /\ Head(name) = Head(pat) /\ fnmatch(Tail(name), Tail(pat))

\* PurePath.match with a relative pattern: the pattern's components are
\* matched against the path's last components.
PathMatch(path, pattern) ==
  /\ Len(pattern) <= Len(path)
  /\ \A i \in 1..Len(pattern) :
       fnmatch(path[Len(path) - Len(pattern) + i], pattern[i])

\* CodebaseAnalyzer.should_ignore
should_ignore(path, patterns) == \E p \in patterns : PathMatch(path, p)

\* directory.rglob("*"): every file and every directory under the base.
Prefixes(p) == { SubSeq(p, 1, n) : n \in 1..Len(p) }
rglob(t) == { BasePath \o q : q \in UNION { Prefixes(f) : f \in DOMAIN t } }

is_file(path, t) == \E f \in DOMAIN t : path = BasePath \o f

\* CodebaseAnalyzer.collect_files
collect_files(t, patterns) ==
  { p \in rglob(t) : is_file(p, t) /\ ~should_ignore(p, patterns) }

\* Path.parent, Path.relative_to, Path.suffix, str.lower
parent(path) == SubSeq(path, 1, Len(path) - 1)
relative_to(path, other) == SubSeq(path, Len(other) + 1, Len(path))
suffix(path) ==
  LET name == Last(path)
  IN IF Len(name) > 1 /\ Last(name) \in {".py", ".PY", ".pyc", ".js", ".toml"}
       THEN Last(name) ELSE ""
lower(s) == IF s = ".PY" THEN ".py" ELSE s

ContentOf(path, t) == t[relative_to(path, BasePath)]

\* CodebaseAnalyzer.analyze_file: <<>> is None, <<r>> is the dict r.
analyze_file(path, t) ==
  IF ContentOf(path, t).kind = "text"
    THEN << [ path  |-> relative_to(path, parent(path)),
              lines |-> ContentOf(path, t).lines,
              type  |-> IF lower(suffix(path)) = "" THEN "no_extension"
                        ELSE lower(suffix(path)) ] >>
    ELSE <<>>

\* dict as the sequence of its items in insertion order
DictKeys(d) == { d[i].key : i \in 1..Len(d) }
DictGet(d, k, default) ==
  IF k \in DictKeys(d)
    THEN d[CHOOSE i \in 1..Len(d) : d[i].key = k].count
    ELSE default
DictSet(d, k, v) ==
  IF k \in DictKeys(d)
    THEN [i \in 1..Len(d) |-> IF d[i].key = k THEN [key |-> k, count |-> v] ELSE d[i]]
    ELSE Append(d, [key |-> k, count |-> v])

EmptyMetrics ==
  [ total_files |-> 0, total_lines |-> 0, files_by_type |-> <<>>,
    file_details |-> <<>>, ignored_files |-> {} ]

\* Mutant of Accumulate: the per-type count starts from 1 instead of 0.
AccumulateFromOne(m, fm) ==
  [ m EXCEPT !.total_files = @ + 1,
             !.total_lines = @ + fm.lines,
             !.files_by_type = DictSet(@, fm.type, DictGet(@, fm.type, 1) + 1),
             !.file_details = Append(@, fm) ]

\* analyze(), lines 91-97: account for one successfully read file.
Accumulate(m, fm) ==
  [ m EXCEPT !.total_files = @ + 1,
             !.total_lines = @ + fm.lines,
             !.files_by_type = DictSet(@, fm.type, DictGet(@, fm.type, 0) + 1),
             !.file_details = Append(@, fm) ]

\* Mutant of Falsy: a record with 0 lines is taken for a failed read.
FalsyOnEmpty(file_metrics) ==
  file_metrics = <<>> \/ file_metrics[1].lines = 0

\* `not file_metrics`: None is falsy, a dict with three keys is not.
Falsy(file_metrics) == file_metrics = <<>>

EvalIdle ==
  /\ tree = <<>> /\ ignore_patterns = {} /\ pc = "idle" /\ visited = {}
  /\ opened = {} /\ metrics = EmptyMetrics /\ detail_src = <<>>

\* analyze() is entered with some tree on disk and some analyzer.
EvalInit ==
  /\ \E S \in SUBSET FileUniverse :
       /\ Cardinality(S) <= MaxFiles
       /\ tree \in [S -> Contents]
  /\ \E supplied \in SuppliedChoices : ignore_patterns = AnalyzerInit(supplied)
  /\ pc = "analyzing"
  /\ visited = {}
  /\ opened = {}
  /\ metrics = EmptyMetrics
  /\ detail_src = <<>>

\* One iteration of the loop of analyze(): the generator yields the next
\* non-ignored file (in the directory's own order), analyze_file opens it.
AnalyzeStep ==
  /\ pc = "analyzing"
  /\ \E file_path \in collect_files(tree, ignore_patterns) \ visited :
       LET file_metrics == analyze_file(file_path, tree)
       IN /\ visited' = visited \cup {file_path}
          /\ opened' = opened \cup {file_path}
          /\ IF Falsy(file_metrics)
               THEN /\ metrics' = [metrics EXCEPT !.ignored_files = @ \cup {file_path}]
                    /\ detail_src' = detail_src
               ELSE /\ metrics' = Accumulate(metrics, file_metrics[1])
                    /\ detail_src' = Append(detail_src, file_path)
  /\ UNCHANGED <<tree, ignore_patterns, pc>>
  /\ EvalFrame

\* The generator is exhausted: analyze() returns metrics.
AnalyzeReturn ==
  /\ pc = "analyzing"
  /\ collect_files(tree, ignore_patterns) \subseteq visited
  /\ pc' = "done"
  /\ UNCHANGED <<tree, ignore_patterns, visited, opened, metrics, detail_src>>
  /\ EvalFrame


\* =========================================================================
\* Markdown report (task_eval.py, metrics_to_markdown)
\* =========================================================================


\* The slice [:10] of the largest-files table.
TopN == 10

\* Records a metrics value may hold; the path of the i-th record is i.
MdRecordChoices ==
  { [lines |-> 1, type |-> ".py"],
    [lines |-> 2, type |-> ".md"] }

\* Mutant of InsertByKey: the element goes before the elements of equal key
\* (what sorting ascending and reversing would do).
InsertBeforeEqual(s, x, keys) ==
  LET k == Cardinality({ i \in 1..Len(s) : keys[s[i]] > keys[x] })
  IN SubSeq(s, 1, k) \o <<x>> \o SubSeq(s, k + 1, Len(s))

\* sorted(..., reverse=True) is stable: an element is placed after every
\* element whose key is greater or equal. s holds indices into keys.
InsertByKey(s, x, keys) ==
  LET k == Cardinality({ i \in 1..Len(s) : keys[s[i]] >= keys[x] })
  IN SubSeq(s, 1, k) \o <<x>> \o SubSeq(s, k + 1, Len(s))

RECURSIVE SortIndices(_, _)
SortIndices(keys, n) ==
  IF n = 0 THEN <<>> ELSE InsertByKey(SortIndices(keys, n - 1), n, keys)

\* sorted(items, key=..., reverse=True), keys[i] being the key of items[i]
sorted_reverse(items, keys) ==
  LET order == SortIndices(keys, Len(items))
  IN [j \in 1..Len(items) |-> items[order[j]]]

\* s[:n]
Slice(s, n) == SubSeq(s, 1, IF Len(s) < n THEN Len(s) ELSE n)

\* metrics_to_markdown: the summary lines and the rows of the two tables.
metrics_to_markdown(m) ==
  [ summary |-> [ total_files |-> m.total_files,
                  total_lines |-> m.total_lines,
                  ignored     |-> Cardinality(m.ignored_files) ],
    by_type |-> LET rows == sorted_reverse(m.files_by_type,
                              [i \in 1..Len(m.files_by_type) |-> m.files_by_type[i].count])
                IN [i \in 1..Len(rows) |->
                      [file_type |-> rows[i].key, count |-> rows[i].count]],
    largest |-> LET rows == Slice(sorted_reverse(m.file_details,
                              [i \in 1..Len(m.file_details) |-> m.file_details[i].lines]),
                              TopN)
                IN [i \in 1..Len(rows) |->
                      [path |-> rows[i].path, lines |-> rows[i].lines]] ]

\* The metrics analyze() builds from the given records, in their order.
RECURSIVE MetricsOf(_)
MetricsOf(details) ==
  IF details = <<>> THEN EmptyMetrics
  ELSE Accumulate(MetricsOf(SubSeq(details, 1, Len(details) - 1)),
                  details[Len(details)])

EmptyReport == [summary |-> <<>>, by_type |-> <<>>, largest |-> <<>>]

MdIdle == md_metrics = EmptyMetrics /\ md_pc = "idle" /\ md_out = EmptyReport

MdInit ==
  /\ \E n \in 0..MaxMdFiles :
       \E choice \in [1..n -> MdRecordChoices] :
         md_metrics = MetricsOf([i \in 1..n |->
           [path |-> i, lines |-> choice[i].lines, type |-> choice[i].type]])
  /\ md_pc = "ready"
  /\ md_out = EmptyReport

Render ==
  /\ md_pc = "ready"
  /\ md_out' = metrics_to_markdown(md_metrics)
  /\ md_pc' = "rendered"
  /\ UNCHANGED md_metrics
  /\ MdFrame

\* =========================================================================
\* cleanup (__init__.py)
\* =========================================================================


\* Names an entry of results/tasks may have.
EntryNames == {"run1", "run2", "notes"}

\* Path.iterdir: every entry of the directory, files included.
iterdir(dir) == DOMAIN dir

\* shutil.rmtree(path) succeeds on a directory and raises
\* NotADirectoryError on a regular file.
rmtree_raises(dir, name) == dir[name] # "dir"
rmtree(dir, name) == [e \in (DOMAIN dir) \ {name} |-> dir[e]]

CleanupIdle ==
  /\ results_exists = FALSE /\ results_dir = <<>> /\ cl_before = <<>>
  /\ not_dry_run = FALSE /\ cl_pc = "idle" /\ cl_todo = {} /\ cl_log = {}

\* main(): the flag is read from the command line.
CleanupInit ==
  /\ results_exists \in BOOLEAN
  /\ \E S \in SUBSET EntryNames :
       /\ ~results_exists => S = {}
       /\ results_dir \in [S -> {"dir", "file"}]
  /\ cl_before = results_dir
  /\ not_dry_run \in BOOLEAN
  /\ cl_pc = "start"
  /\ cl_todo = {}
  /\ cl_log = {}

\* cleanup_task_results, lines 14-16: the directory is listed if it exists.
CleanupStart ==
  /\ cl_pc = "start"
  /\ IF results_exists
       THEN cl_todo' = iterdir(results_dir) /\ cl_pc' = "loop"
       ELSE cl_todo' = {} /\ cl_pc' = "done"
  /\ UNCHANGED <<results_exists, results_dir, cl_before, not_dry_run, cl_log>>
  /\ CleanupFrame

\* One iteration of the loop, lines 16-19.
CleanupStep ==
  /\ cl_pc = "loop"
  /\ \E task_dir \in cl_todo :
       /\ cl_log' = cl_log \cup {task_dir}
       /\ cl_todo' = cl_todo \ {task_dir}
       /\ IF ~not_dry_run
            THEN UNCHANGED <<results_dir, cl_pc>>
            ELSE IF rmtree_raises(results_dir, task_dir)
              THEN cl_pc' = "raised" /\ UNCHANGED results_dir
              ELSE results_dir' = rmtree(results_dir, task_dir) /\ UNCHANGED cl_pc
  /\ UNCHANGED <<results_exists, cl_before, not_dry_run>>
  /\ CleanupFrame

CleanupReturn ==
  /\ cl_pc = "loop"
  /\ cl_todo = {}
  /\ cl_pc' = "done"
  /\ UNCHANGED <<results_exists, results_dir, cl_before, not_dry_run, cl_todo, cl_log>>
  /\ CleanupFrame

\* =========================================================================
\* IDE version probe (task_init.py, get_ide_version)
\* =========================================================================
\* The output of the command is a sequence of characters; the nine
\* characters of the marker "[version:" are one token, "1" stands for any
\* other visible character.
Marker == <<"[version:">>
OutChars == {"[version:", "1", " ", "\n"}

\* What subprocess.run may do: raise (the runner is not installed), or
\* complete with a return code and captured output.
RunOutcomes ==
  { [raised |-> TRUE, returncode |-> 1, stdout |-> <<>>] }
    \cup [ raised : {FALSE}, returncode : {0, 1},
           stdout : UNION { [1..n -> OutChars] : n \in 0..MaxOut } ]

IsSpace(c) == c \in {" ", "\n"}

RECURSIVE lstrip(_)
lstrip(str) ==
  IF str # <<>> /\ IsSpace(Head(str)) THEN lstrip(Tail(str)) ELSE str

RECURSIVE rstrip(_)
rstrip(str) ==
  IF str # <<>> /\ IsSpace(str[Len(str)])
    THEN rstrip(SubSeq(str, 1, Len(str) - 1)) ELSE str

\* str.strip
strip(str) == rstrip(lstrip(str))

\* str.splitlines: the text between line ends, no empty last line
RECURSIVE splitlines(_)
splitlines(str) ==
  IF str = <<>> THEN <<>>
  ELSE IF \E i \in 1..Len(str) : str[i] = "\n"
    THEN LET i == CHOOSE k \in 1..Len(str) :
                    str[k] = "\n" /\ \A j \in 1..(k - 1) : str[j] # "\n"
         IN <<SubSeq(str, 1, i - 1)>> \o splitlines(SubSeq(str, i + 1, Len(str)))
    ELSE <<str>>

\* str.startswith
startswith(str, prefix) ==
  Len(prefix) <= Len(str) /\ SubSeq(str, 1, Len(prefix)) = prefix

\* [line for line in lines if line and not line.startswith("[version:")]
version_lines(lines) ==
  SelectSeq(lines, LAMBDA line : line # <<>> /\ ~startswith(line, Marker))

\* get_ide_version: result is <<>> for None and <<v>> for the string v;
\* warned tells whether console.warn was called.
get_ide_version(run) ==
  IF run.raised
    THEN [result |-> <<>>, warned |-> TRUE]
    ELSE IF /\ run.returncode = 0
            /\ strip(run.stdout) # <<>>
            /\ version_lines(splitlines(strip(run.stdout))) # <<>>
      THEN [ result |-> << strip(version_lines(splitlines(strip(run.stdout)))[1]) >>,
             warned |-> FALSE ]
      ELSE [result |-> <<>>, warned |-> TRUE]

VersionIdle ==
  /\ ver_run = [raised |-> TRUE, returncode |-> 1, stdout |-> <<>>]
  /\ ver_pc = "idle" /\ ver_result = <<>> /\ ver_warned = FALSE

VersionInit ==
  /\ ver_run \in RunOutcomes
  /\ ver_pc = "call"
  /\ ver_result = <<>>
  /\ ver_warned = FALSE

GetIdeVersion ==
  /\ ver_pc = "call"
  /\ ver_result' = get_ide_version(ver_run).result
  /\ ver_warned' = get_ide_version(ver_run).warned
  /\ ver_pc' = "returned"
  /\ UNCHANGED ver_run
  /\ VersionFrame

\* =========================================================================
\* Task initialisation (task_init.py)
\* =========================================================================
\* A node of the file system: a regular file with its bytes, or a directory
\* with its entries (name -> node).
File(d) == [kind |-> "file", data |-> d, entries |-> <<>>]
Dir(e) == [kind |-> "dir", data |-> "", entries |-> e]

TaskTypes == {"greenfield", "brownfield"}
TaskNames == {"todo-app", "snakegame"}
ChildNames == {"A", "B"}

\* The template of the specification's example: a file A and a tree B/C.
SampleTemplate ==
  Dir([c \in ChildNames |->
         IF c = "A" THEN File("a") ELSE Dir([x \in {"C"} |-> File("c")])])

\* (DIRS.TASKS / typ / name).exists(), .is_dir(), and the node there
path_exists(fs, path) ==
  fs[path[1]].exists /\ path[2] \in DOMAIN fs[path[1]].entries
node_at(fs, path) == fs[path[1]].entries[path[2]]
is_dir(fs, path) == path_exists(fs, path) /\ node_at(fs, path).kind = "dir"

\* _get_templates(typ): iterdir raises FileNotFoundError when tasks/typ is
\* missing; otherwise name -> (str(t), typ) for the directories t in it.
get_templates_raises(fs, typ) == ~fs[typ].exists
get_templates(fs, typ) ==
  [ name \in { n \in DOMAIN fs[typ].entries : is_dir(fs, <<typ, n>>) } |->
      [dir |-> <<typ, name>>, type |-> typ] ]

\* {**a, **b}: the items of b replace those of a with the same key.
DictMerge(a, b) ==
  [ k \in (DOMAIN a) \cup (DOMAIN b) |-> IF k \in DOMAIN b THEN b[k] ELSE a[k] ]

\* generate_output_path: a directory under DIRS.TASK_RESULTS named after the
\* run (the ide, llm and time of the name are left out).
generate_output_path(md) == <<"results", "tasks", md.task_name>>

\* shutil.copy2(item, output_dir / name): a directory at the destination
\* receives the file inside it, anything else is replaced by the file.
copy2(entries, name, node) ==
  IF name \in DOMAIN entries /\ entries[name].kind = "dir"
    THEN [ entries EXCEPT ![name] =
             Dir([ c \in (DOMAIN entries[name].entries) \cup {name} |->
                     IF c = name THEN node ELSE entries[name].entries[c] ]) ]
    ELSE [ c \in (DOMAIN entries) \cup {name} |->
             IF c = name THEN node ELSE entries[c] ]

\* shutil.copytree(item, output_dir / name) raises FileExistsError when the
\* destination exists, and otherwise creates it as a copy of the tree.
copytree_raises(entries, name) == name \in DOMAIN entries
copytree(entries, name, node) ==
  [ c \in (DOMAIN entries) \cup {name} |-> IF c = name THEN node ELSE entries[c] ]

\* The status the process ends with: 0 when the entry point returns, 1 after
\* sys.exit(1) and after an exception nobody catches.
ExitStatus(kind) == IF kind = "returned" THEN 0 ELSE 1

NoOut == [parent_exists |-> FALSE, exists |-> FALSE, entries |-> <<>>]
NoCopyArgs ==
  [form |-> "None", task_template_dir |-> <<>>, task_type |-> "none", task_name |-> "none"]
NoArgs ==
  [task_name |-> "none", task_type |-> "none", output_dir |-> "none", start_ide |-> FALSE]
NoRun == [raised |-> TRUE, returncode |-> 1, stdout |-> <<>>]
NoTasks == [t \in TaskTypes |-> [exists |-> FALSE, entries |-> <<>>]]

TaskIdle ==
  /\ tasks = NoTasks /\ tasks_before = NoTasks
  /\ out = NoOut /\ out_before = NoOut
  /\ args = NoArgs /\ probe = NoRun
  /\ init_pc = "idle" /\ exit_kind = "none" /\ errors = {}
  /\ task_templates = <<>> /\ selected = <<>> /\ ide_version = <<>>
  /\ metadata = <<>> /\ output_dir = <<>>
  /\ copy_args = NoCopyArgs /\ caller = "none"
  /\ template_dir = <<>> /\ copy_todo = {} /\ ide_started = FALSE

\* The locals of a run that has not reached them yet.
FreshLocals ==
  /\ exit_kind = "none" /\ errors = {}
  /\ task_templates = <<>> /\ selected = <<>> /\ ide_version = <<>>
  /\ metadata = <<>> /\ output_dir = <<>>
  /\ template_dir = <<>> /\ copy_todo = {} /\ ide_started = FALSE

\* Outcomes of the version command a run of init may meet.
ProbeChoices ==
  { NoRun,
    [raised |-> FALSE, returncode |-> 0, stdout |-> <<"1">>],
    [raised |-> FALSE, returncode |-> 0, stdout |-> <<"[version:", "\n", " ", "\n", "1">>] }

\* init is started: argparse has filled args, the disk holds some tasks
\* tree and the output directory may or may not be there.
TaskInit ==
  /\ tasks \in [ TaskTypes ->
       { [exists |-> FALSE, entries |-> <<>>] }
         \cup { [exists |-> TRUE, entries |-> e] :
                  e \in UNION { [S -> {SampleTemplate, File("a")}] :
                                  S \in SUBSET TaskNames } } ]
  /\ tasks_before = tasks
  /\ out \in { NoOut,
               [parent_exists |-> TRUE, exists |-> FALSE, entries |-> <<>>],
               [parent_exists |-> TRUE, exists |-> TRUE, entries |-> <<>>],
               [parent_exists |-> TRUE, exists |-> TRUE,
                entries |-> [c \in {"B"} |-> Dir(<<>>)]] }
  /\ out_before = out
  /\ args \in [ task_name : TaskNames, task_type : TaskTypes \cup {"none"},
                output_dir : {"none", "custom"}, start_ide : BOOLEAN ]
  /\ probe \in ProbeChoices
  /\ init_pc = "templates"
  /\ copy_args = NoCopyArgs
  /\ caller = "init"
  /\ FreshLocals

\* init_entrypoint, lines 209-212
InitTemplates ==
  /\ init_pc = "templates"
  /\ IF get_templates_raises(tasks, "greenfield") \/ get_templates_raises(tasks, "brownfield")
       THEN /\ exit_kind' = "FileNotFoundError"
            /\ errors' = errors \cup
                 { <<"FileNotFoundError",
                     IF get_templates_raises(tasks, "greenfield")
                       THEN <<"greenfield">> ELSE <<"brownfield">> >> }
            /\ init_pc' = "exited"
            /\ UNCHANGED task_templates
       ELSE /\ task_templates' =
                 DictMerge(get_templates(tasks, "greenfield"),
                           get_templates(tasks, "brownfield"))
            /\ init_pc' = "lookup"
            /\ UNCHANGED <<exit_kind, errors>>
  /\ UNCHANGED <<tasks, tasks_before, out, out_before, args, probe, selected,
                 ide_version, metadata, output_dir, copy_args, caller, template_dir,
                 copy_todo, ide_started>>
  /\ TaskFrame

\* init_entrypoint, line 214
InitLookup ==
  /\ init_pc = "lookup"
  /\ IF args.task_name \in DOMAIN task_templates
       THEN /\ selected' = task_templates[args.task_name]
            /\ init_pc' = "version"
            /\ UNCHANGED <<exit_kind, errors>>
       ELSE /\ exit_kind' = "KeyError"
            /\ errors' = errors \cup { <<"KeyError", <<args.task_name>> >> }
            /\ init_pc' = "exited"
            /\ UNCHANGED selected
  /\ UNCHANGED <<tasks, tasks_before, out, out_before, args, probe,
                 task_templates, ide_version, metadata, output_dir, copy_args, caller,
                 template_dir, copy_todo, ide_started>>
  /\ TaskFrame

\* init_entrypoint, lines 216-219
InitProbe ==
  /\ init_pc = "version"
  /\ ide_version' = get_ide_version(probe).result
  /\ init_pc' = "metadata"
  /\ UNCHANGED <<tasks, tasks_before, out, out_before, args, probe, exit_kind, errors,
                 task_templates, selected, metadata, output_dir, copy_args, caller,
                 template_dir, copy_todo, ide_started>>
  /\ TaskFrame

\* init_entrypoint, lines 221-247: the metadata, the output path, and the
\* call copy_task_template(output_dir=..., task_template_dir=...).
InitMetadata ==
  /\ init_pc = "metadata"
  /\ LET md == [ task_type |-> selected.type, task_name |-> args.task_name,
                 ide_version |-> ide_version ]
     IN /\ metadata' = <<md>>
        /\ output_dir' = IF args.output_dir # "none" THEN <<args.output_dir>>
                         ELSE generate_output_path(md)
  /\ copy_args' = [ form |-> "str", task_template_dir |-> selected.dir,
                    task_type |-> "none", task_name |-> "none" ]
  /\ init_pc' = "copy_resolve"
  /\ UNCHANGED <<tasks, tasks_before, out, out_before, args, probe, exit_kind, errors,
                 task_templates, selected, ide_version, caller, template_dir,
                 copy_todo, ide_started>>
  /\ TaskFrame

\* copy_task_template, lines 76-88
CopyResolve ==
  /\ init_pc = "copy_resolve"
  /\ LET dir == IF copy_args.form \in {"str", "Path"}
                  THEN copy_args.task_template_dir
                  ELSE <<copy_args.task_type, copy_args.task_name>>
     IN /\ template_dir' = dir
        /\ IF path_exists(tasks, dir)
             THEN /\ init_pc' = "copy_mkdir"
                  /\ UNCHANGED <<errors, exit_kind>>
             ELSE /\ errors' = errors \cup {<<"Task template not found", dir>>}
                  /\ exit_kind' = "sys_exit_1"
                  /\ init_pc' = "exited"
  /\ UNCHANGED <<tasks, tasks_before, out, out_before, args, probe, task_templates,
                 selected, ide_version, metadata, output_dir, copy_args, caller,
                 copy_todo, ide_started>>
  /\ TaskFrame

\* copy_task_template, lines 91-94: mkdir(parents=True, exist_ok=True), then
\* the template's children are listed.
CopyMkdir ==
  /\ init_pc = "copy_mkdir"
  /\ out' = [out EXCEPT !.parent_exists = TRUE, !.exists = TRUE]
  /\ copy_todo' = DOMAIN node_at(tasks, template_dir).entries
  /\ init_pc' = "copy_loop"
  /\ UNCHANGED <<tasks, tasks_before, out_before, args, probe, exit_kind, errors,
                 task_templates, selected, ide_version, metadata, output_dir, copy_args,
                 caller, template_dir, ide_started>>
  /\ TaskFrame

\* copy_task_template, lines 94-98: one child of the template.
CopyItem ==
  /\ init_pc = "copy_loop"
  /\ \E name \in copy_todo :
       LET item == node_at(tasks, template_dir).entries[name]
       IN /\ copy_todo' = copy_todo \ {name}
          /\ IF item.kind = "file"
               THEN /\ out' = [out EXCEPT !.entries = copy2(@, name, item)]
                    /\ UNCHANGED <<exit_kind, errors, init_pc>>
               ELSE IF copytree_raises(out.entries, name)
                 THEN /\ exit_kind' = "FileExistsError"
                      /\ errors' = errors \cup { <<"FileExistsError", <<name>> >> }
                      /\ init_pc' = "exited"
                      /\ UNCHANGED out
                 ELSE /\ out' = [out EXCEPT !.entries = copytree(@, name, item)]
                      /\ UNCHANGED <<exit_kind, errors, init_pc>>
  /\ UNCHANGED <<tasks, tasks_before, out_before, args, probe, task_templates,
                 selected, ide_version, metadata, output_dir, copy_args, caller,
                 template_dir, ide_started>>
  /\ TaskFrame

\* copy_task_template returns, to init_entrypoint or to another caller.
CopyReturn ==
  /\ init_pc = "copy_loop"
  /\ copy_todo = {}
  /\ IF caller = "init"
       THEN init_pc' = "save" /\ UNCHANGED exit_kind
       ELSE init_pc' = "exited" /\ exit_kind' = "returned"
  /\ UNCHANGED <<tasks, tasks_before, out, out_before, args, probe, errors,
                 task_templates, selected, ide_version, metadata, output_dir, copy_args,
                 caller, template_dir, copy_todo, ide_started>>
  /\ TaskFrame

\* init_entrypoint, lines 249-253: save_metadata, print_task_info, start_ide.
InitSave ==
  /\ init_pc = "save"
  /\ out' = [out EXCEPT !.entries = copy2(@, "metadata.json", File("metadata"))]
  /\ ide_started' = args.start_ide
  /\ exit_kind' = "returned"
  /\ init_pc' = "exited"
  /\ UNCHANGED <<tasks, tasks_before, out_before, args, probe, errors, task_templates,
                 selected, ide_version, metadata, output_dir, copy_args, caller,
                 template_dir, copy_todo>>
  /\ TaskFrame

\* copy_task_template called on its own, with each form of its arguments.
TemplateChildren ==
  UNION { [S -> {File("a"), Dir(<<>>), Dir([x \in {"C"} |-> File("c")])}] :
            S \in SUBSET ChildNames }
OutputChildren ==
  UNION { [S -> {File("old"), Dir(<<>>)}] : S \in SUBSET ChildNames }

CopyInit ==
  /\ \E present \in BOOLEAN, children \in TemplateChildren :
       tasks = [ t \in TaskTypes |->
                   IF t = "greenfield" /\ present
                     THEN [exists |-> TRUE, entries |-> [n \in {"todo-app"} |-> Dir(children)]]
                     ELSE [exists |-> TRUE, entries |-> <<>>] ]
  /\ tasks_before = tasks
  /\ out \in { NoOut, [parent_exists |-> TRUE, exists |-> FALSE, entries |-> <<>>] }
            \cup { [parent_exists |-> TRUE, exists |-> TRUE, entries |-> e] :
                     e \in OutputChildren }
  /\ out_before = out
  /\ args = NoArgs
  /\ probe = NoRun
  /\ init_pc = "copy_resolve"
  /\ copy_args \in
       { [form |-> f, task_template_dir |-> <<"greenfield", "todo-app">>,
          task_type |-> "none", task_name |-> "none"] : f \in {"str", "Path"} }
       \cup { [form |-> "None", task_template_dir |-> <<>>,
               task_type |-> "greenfield", task_name |-> "todo-app"] }
  /\ caller = "direct"
  /\ FreshLocals

\* =========================================================================
\* Specifications
\* =========================================================================
\* eval: one run of CodebaseAnalyzer.analyze
Init == EvalInit /\ MdIdle /\ CleanupIdle /\ VersionIdle /\ TaskIdle
Next == AnalyzeStep \/ AnalyzeReturn
Spec == Init /\ [][Next]_vars

\* one call of metrics_to_markdown
InitMarkdown == MdInit /\ EvalIdle /\ CleanupIdle /\ VersionIdle /\ TaskIdle
NextMarkdown == Render
SpecMarkdown == InitMarkdown /\ [][NextMarkdown]_vars

\* one run of the cleanup command
InitCleanup == CleanupInit /\ EvalIdle /\ MdIdle /\ VersionIdle /\ TaskIdle
NextCleanup == CleanupStart \/ CleanupStep \/ CleanupReturn
SpecCleanup == InitCleanup /\ [][NextCleanup]_vars

\* one call of get_ide_version
InitVersion == VersionInit /\ EvalIdle /\ MdIdle /\ CleanupIdle /\ TaskIdle
NextVersion == GetIdeVersion
SpecVersion == InitVersion /\ [][NextVersion]_vars

\* one run of the init command
InitTask == TaskInit /\ EvalIdle /\ MdIdle /\ CleanupIdle /\ VersionIdle
NextTask ==
  \/ InitTemplates \/ InitLookup \/ InitProbe \/ InitMetadata
  \/ CopyResolve \/ CopyMkdir \/ CopyItem \/ CopyReturn
  \/ InitSave
SpecTask == InitTask /\ [][NextTask]_vars

\* one call of copy_task_template
InitCopy == CopyInit /\ EvalIdle /\ MdIdle /\ CleanupIdle /\ VersionIdle
NextCopy == CopyResolve \/ CopyMkdir \/ CopyItem \/ CopyReturn
SpecCopy == InitCopy /\ [][NextCopy]_vars

\* =========================================================================
\* Properties of the analyzer
\* =========================================================================
RECURSIVE SumLines(_)
SumLines(details) ==
  IF details = <<>> THEN 0 ELSE Head(details).lines + SumLines(Tail(details))

RECURSIVE SumOver(_, _)
SumOver(S, t) ==
  IF S = {} THEN 0
  ELSE LET p == CHOOSE q \in S : TRUE
       IN ContentOf(p, t).lines + SumOver(S \ {p}, t)

CountOfType(details, k) ==
  Cardinality({ i \in 1..Len(details) : details[i].type = k })

RecordsOf(p) == { i \in 1..Len(detail_src) : detail_src[i] = p }

DefaultIgnoredDirs == { <<".git">>, <<"node_modules">>, <<"__pycache__">>, <<".venv">> }

\* f lies somewhere beneath a directory named by a default pattern
BeneathDefaultDir(f) == \E i \in 1..(Len(f) - 1) : f[i] \in DefaultIgnoredDirs

\* the files of the tree the ignore patterns are meant to exclude
Excluded ==
  { BasePath \o f : f \in { g \in DOMAIN tree :
      should_ignore(BasePath \o g, ignore_patterns) \/ BeneathDefaultDir(g) } }

TextFiles(S) == { p \in S : ContentOf(p, tree).kind = "text" }

\* C1: analyze never opens a file that matches an ignore pattern or lies
\* beneath a directory named by a default pattern; such a file is in neither
\* file_details nor ignored_files and adds nothing to total_files or
\* total_lines.
C1_IgnoredNeverOpened ==
  /\ \A p \in Excluded :
       /\ p \notin opened
       /\ p \notin metrics.ignored_files
       /\ RecordsOf(p) = {}
  /\ metrics.total_files = Cardinality(TextFiles(opened \ Excluded))
  /\ metrics.total_lines = SumOver(TextFiles(opened \ Excluded), tree)

\* C2: after every step of analyze and in its result, total_files is the
\* length of file_details, total_lines is the sum of their line counts, and
\* every key of files_by_type is counted as often as file_details has
\* records of that type, never 0 times.
C2_TotalsMatchDetails ==
  /\ metrics.total_files = Len(metrics.file_details)
  /\ metrics.total_lines = SumLines(metrics.file_details)
  /\ \A i \in 1..Len(metrics.files_by_type) :
       LET e == metrics.files_by_type[i]
       IN /\ e.count = CountOfType(metrics.file_details, e.key)
          /\ e.count > 0
          /\ \A j \in 1..Len(metrics.files_by_type) :
               metrics.files_by_type[j].key = e.key => j = i

C2_Witness ==
  /\ pc = "done"
  /\ metrics.total_files = 2
  /\ metrics.total_lines > 0
  /\ \E i \in 1..Len(metrics.files_by_type) : metrics.files_by_type[i].count = 2

RECURSIVE SumCounts(_)
SumCounts(d) == IF d = <<>> THEN 0 ELSE Head(d).count + SumCounts(Tail(d))

\* C8: every regular file matching no ignore pattern is accounted for
\* exactly once: read successfully (empty files included) it has exactly one
\* file_details record and is not in ignored_files; failing to read it is in
\* ignored_files and adds nothing to total_files, total_lines, files_by_type
\* or file_details; and the traversal goes on to the remaining files.
C8_EachFileAccountedOnce ==
  LET files == collect_files(tree, ignore_patterns)
      read  == TextFiles(visited)
  IN /\ visited \subseteq files
     /\ pc = "done" => visited = files
     /\ \A p \in visited :
          IF ContentOf(p, tree).kind = "text"
            THEN /\ Cardinality(RecordsOf(p)) = 1
                 /\ \A i \in RecordsOf(p) :
                      metrics.file_details[i].lines = ContentOf(p, tree).lines
                 /\ p \notin metrics.ignored_files
            ELSE /\ RecordsOf(p) = {}
                 /\ p \in metrics.ignored_files
     /\ metrics.total_files = Cardinality(read)
     /\ metrics.total_lines = SumOver(read, tree)
     /\ Len(metrics.file_details) = Cardinality(read)
     /\ SumCounts(metrics.files_by_type) = Cardinality(read)

C8_Witness ==
  /\ pc = "done"
  /\ metrics.ignored_files # {}
  /\ \E i \in 1..Len(metrics.file_details) : metrics.file_details[i].lines = 0

\* =========================================================================
\* Properties of the markdown report
\* =========================================================================
PosOf(details, path) == CHOOSE i \in 1..Len(details) : details[i].path = path

\* C10: the largest-files table lists at most ten files, they are the files
\* with the greatest line counts in file_details, in non-increasing order of
\* line count, files with equal line counts in their file_details order; the
\* files-by-type table lists every key of files_by_type once, in
\* non-increasing order of count.
C10_ReportTables ==
  md_pc = "rendered" =>
    LET d    == md_metrics.file_details
        top  == md_out.largest
        fbt  == md_metrics.files_by_type
        rows == md_out.by_type
        listed == { top[j].path : j \in 1..Len(top) }
    IN /\ Len(top) <= 10
       /\ Len(top) = (IF Len(d) < 10 THEN Len(d) ELSE 10)
       /\ \A j \in 1..Len(top) :
            \E i \in 1..Len(d) : d[i].path = top[j].path /\ d[i].lines = top[j].lines
       /\ \A j, k \in 1..Len(top) :
            j < k =>
              /\ top[j].path # top[k].path
              /\ top[j].lines >= top[k].lines
              /\ top[j].lines = top[k].lines =>
                   PosOf(d, top[j].path) < PosOf(d, top[k].path)
       /\ \A i \in 1..Len(d) :
            d[i].path \notin listed =>
              \A j \in 1..Len(top) :
                /\ d[i].lines <= top[j].lines
                /\ d[i].lines = top[j].lines => PosOf(d, top[j].path) < i
       /\ Len(rows) = Len(fbt)
       /\ \A i \in 1..Len(fbt) :
            Cardinality({ j \in 1..Len(rows) :
              rows[j].file_type = fbt[i].key /\ rows[j].count = fbt[i].count }) = 1
       /\ \A j, k \in 1..Len(rows) : j < k => rows[j].count >= rows[k].count

C10_Witness ==
  /\ md_pc = "rendered"
  /\ Len(md_metrics.file_details) > 10
  /\ Len(md_out.largest) = 10
  /\ md_out.largest[1].lines = md_out.largest[2].lines
  /\ md_out.largest[1].lines > md_out.largest[10].lines
  /\ md_metrics.file_details[1].lines < md_metrics.file_details[2].lines
  /\ Len(md_out.by_type) = 2
  /\ md_out.by_type[1].file_type # md_metrics.files_by_type[1].key

\* =========================================================================
\* Properties of cleanup
\* =========================================================================
SubdirsBefore == { e \in DOMAIN cl_before : cl_before[e] = "dir" }

\* C3: whatever results/tasks holds, cleanup without --not-dry-run removes
\* nothing, and cleanup with --not-dry-run ends with every immediate
\* subdirectory that existed before the call removed and results/tasks
\* itself still there.
C3_CleanupRemovesSubdirs ==
  /\ ~not_dry_run => results_dir = cl_before
  /\ (not_dry_run /\ cl_pc \in {"done", "raised"}) =>
       /\ SubdirsBefore \cap DOMAIN results_dir = {}
       /\ (DOMAIN cl_before # {} => results_exists)

\* =========================================================================
\* Properties of the version probe
\* =========================================================================
\* the lines of the command's output that are not empty and do not start
\* with the marker
UnmarkedLines(text) == version_lines(splitlines(strip(text)))

\* C9: get_ide_version returns for every outcome of the command: when the
\* command exits 0 and its output has a non-empty line not prefixed with the
\* marker, the first such line, a non-empty version string; otherwise None,
\* with a warning.
C9_VersionOrNone ==
  ver_pc = "returned" =>
    IF ~ver_run.raised /\ ver_run.returncode = 0 /\ UnmarkedLines(ver_run.stdout) # <<>>
      THEN /\ ver_result = << strip(UnmarkedLines(ver_run.stdout)[1]) >>
           /\ ver_result[1] # <<>>
      ELSE /\ ver_result = <<>>
           /\ ver_warned

\* =========================================================================
\* Properties of task initialisation
\* =========================================================================
InitExited == caller = "init" /\ init_pc = "exited"

\* the task name is a subdirectory of tasks/typ when the run starts
IsTask(typ) == is_dir(tasks_before, <<typ, args.task_name>>)

\* C4: init with a task name that is a subdirectory of neither
\* tasks/greenfield nor tasks/brownfield (one of the two may be missing)
\* prints an error naming the task, ends by sys.exit(1), and has created no
\* output directory and no metadata.json.
C4_UnknownTaskExits ==
  (InitExited /\ ~IsTask("greenfield") /\ ~IsTask("brownfield")) =>
    /\ exit_kind = "sys_exit_1"
    /\ \E e \in errors : Last(e[2]) = args.task_name
    /\ out = out_before
    /\ "metadata.json" \notin DOMAIN out.entries

\* C5: with no task type given and the task present under both
\* tasks/greenfield and tasks/brownfield, the template provisioned is
\* tasks/greenfield/<name> and the metadata says "greenfield"; brownfield is
\* chosen only when the name is absent under greenfield.
C5_DetectionPrefersGreenfield ==
  (InitExited /\ exit_kind = "returned" /\ args.task_type = "none") =>
    /\ (IsTask("greenfield") /\ IsTask("brownfield")) =>
         /\ template_dir = <<"greenfield", args.task_name>>
         /\ metadata[1].task_type = "greenfield"
    /\ metadata[1].task_type = "brownfield" => ~IsTask("greenfield")

\* C6: with --task-type T the template provisioned is tasks/T/<name> and the
\* metadata says T; if tasks/T/<name> does not exist the run ends with exit
\* status 1 and uses no template of the other type.
C6_ExplicitTypeIsUsed ==
  (InitExited /\ args.task_type # "none") =>
    IF path_exists(tasks_before, <<args.task_type, args.task_name>>)
      THEN exit_kind = "returned" =>
             /\ template_dir = <<args.task_type, args.task_name>>
             /\ metadata[1].task_type = args.task_type
      ELSE /\ ExitStatus(exit_kind) = 1
           /\ out = out_before

\* C7: given an existing template directory, copy_task_template creates the
\* output directory (and its missing parents) and ends with the output
\* directory holding every file and every subdirectory tree of the template,
\* identical to the template's, the template itself being unchanged.
C7_CopyIsComplete ==
  (caller = "direct" /\ init_pc = "exited" /\ is_dir(tasks_before, template_dir)) =>
    LET template == node_at(tasks_before, template_dir).entries
    IN /\ out.parent_exists /\ out.exists
       /\ \A c \in DOMAIN template :
            c \in DOMAIN out.entries /\ out.entries[c] = template[c]
       /\ tasks = tasks_before

\* =========================================================================
\* Properties of the analyzer's records
\* =========================================================================
\* C11: the path of every file_details record is the file's path relative to
\* the analysed root, so path is a key of file_details: two distinct files
\* counted in one analysis never have equal path values.
C11_PathIsKey ==
  /\ \A i \in 1..Len(metrics.file_details) :
       metrics.file_details[i].path = relative_to(detail_src[i], BasePath)
  /\ \A i, j \in 1..Len(metrics.file_details) :
       detail_src[i] # detail_src[j] =>
         metrics.file_details[i].path # metrics.file_details[j].path

====
